---- MODULE Spec2Model ----
(***************************************************************************)
(* A model of cas_create_db_fingerprint.py: the fingerprint of a Cassandra *)
(* cluster (schema of every user table, a replayable sample of its rows,   *)
(* the results of custom queries), produced afresh or by replaying an      *)
(* older fingerprint as a template.  One action is one query sent to the   *)
(* cluster (or a bookkeeping step that sends none); the cluster answers    *)
(* each query with its rows or with an exception.                          *)
(***************************************************************************)
EXTENDS Integers, Sequences, FiniteSets, TLC

\* largest --sample-size tried
MaxSample == 2
\* longest list of --query arguments tried
MaxCustom == 2
\* longest recorded `data` list of a template table entry tried
MaxReplay == 2

(***************************************************************************)
(* Python values                                                           *)
(***************************************************************************)
\* Python's None and a present value, for anything that may be None
None == <<>>
Some(x) == <<x>>
\* an empty dict
EmptyMap == [x \in {} |-> x]
\* dict.get(key, default)
Get(m, k, default) == IF k \in DOMAIN m THEN m[k] ELSE default

Min(a, b) == IF a <= b THEN a ELSE b

\* column values as the driver returns them
IntVal(v) == [type |-> "int", v |-> v]
TextVal(v) == [type |-> "text", v |-> v]
Null == [type |-> "null", v |-> "None"]
Timestamp(v) == [type |-> "datetime", v |-> v]
\* str(x): a Python string holding the rendering of x
PyStr(x) == [pystr |-> x]

\* json.dumps(value) raises TypeError: false for the types json encodes
\* (int, str, None), true for a driver type such as datetime
RaisesTypeError(v) == v.type \notin {"int", "text", "null"}

\* json.dumps of a row (a dict, row_factory = dict_factory) raises TypeError
\* as soon as one of its values does
RowRaisesTypeError(row) == \E c \in DOMAIN row : RaisesTypeError(row[c])

\* escape_row(value), called with a whole row
escape_row(value) ==
    IF RowRaisesTypeError(value) THEN PyStr(value) ELSE value

\* [escape_row(r) for r in result]
EscapeAll(result) == [i \in 1..Len(result) |-> escape_row(result[i])]

\* {"query": query, "data": [escape_row(r) for r in result]}
QueryResultUnescaped(query, result) == [query |-> query, data |-> result]
QueryResult(query, result) == [query |-> query, data |-> EscapeAll(result)]

\* for query in queries: the query the loop is at, `results` being appended
\* to once per iteration
NextQueryFromEnd(queries, results) == queries[Len(queries) - Len(results)]
NextQuery(queries, results) == queries[Len(results) + 1]

(***************************************************************************)
(* The cluster: metadata and content                                       *)
(***************************************************************************)
\* A name is a sequence of pieces, so that startswith can be computed.
SystemPrefix == <<"system">>
startswith(name, prefix) ==
    /\ Len(name) >= Len(prefix)
    /\ SubSeq(name, 1, Len(prefix)) = prefix

App == <<"app">>

TableT == [keyspace_name |-> App, name |-> "t",
           primary_key |-> <<"id">>,
           schema |-> "CREATE TABLE app.t (id int PRIMARY KEY, name text)"]
\* columns declared a, b, c; primary key declared (b, a)
TableU == [keyspace_name |-> App, name |-> "u",
           primary_key |-> <<"b", "a">>,
           schema |-> "CREATE TABLE app.u (a int, b int, c timestamp, PRIMARY KEY (b, a))"]
\* a table without rows
TableE == [keyspace_name |-> App, name |-> "e",
           primary_key |-> <<"k">>,
           schema |-> "CREATE TABLE app.e (k int PRIMARY KEY)"]
TableLocal == [keyspace_name |-> <<"system">>, name |-> "local",
               primary_key |-> <<"key">>,
               schema |-> "CREATE TABLE system.local"]
TableRoles == [keyspace_name |-> <<"system", "_auth">>, name |-> "roles",
               primary_key |-> <<"role">>,
               schema |-> "CREATE TABLE system_auth.roles"]

\* cluster.metadata.keyspaces.values()
ClusterKeyspaces ==
    << [name |-> <<"system">>, tables |-> <<TableLocal>>],
       [name |-> App, tables |-> <<TableT, TableU, TableE>>],
       [name |-> <<"system", "_auth">>, tables |-> <<TableRoles>>],
       [name |-> <<"my", "system">>, tables |-> <<>>] >>

\* table.keyspace_name + "." + table.name
QualifiedName(table) == table.keyspace_name \o <<".", table.name>>

\* the rows of each table, in the order a scan returns them
RowsT == << [id |-> IntVal("1"), name |-> TextVal("a")],
            [id |-> IntVal("2"), name |-> TextVal("b")] >>
RowsU == << [a |-> IntVal("1"), b |-> IntVal("7"), c |-> Timestamp("2020-01-01")],
            [a |-> IntVal("2"), b |-> IntVal("8"), c |-> Null] >>
TableRows(table_name) ==
    IF table_name = QualifiedName(TableT) THEN RowsT
    ELSE IF table_name = QualifiedName(TableU) THEN RowsU
    ELSE <<>>

(***************************************************************************)
(* Statements                                                              *)
(***************************************************************************)
\* "SELECT * FROM " + table_name + " LIMIT %s" bound to [sample_size]
ScanStatement(table_name, sample_size) ==
    [kind |-> "scan", table |-> table_name, where |-> <<>>, limit |-> sample_size]
\* "%s = %%(%s)s" % (n, n): a named placeholder
Placeholder(n) == [type |-> "placeholder", v |-> n]
\* " and ".join(... for n in pk), in "SELECT * FROM {} WHERE {}"
PredicateStatementReversed(table_name, pk) ==
    [kind |-> "select", table |-> table_name,
     where |-> [i \in 1..Len(pk) |->
                   [col |-> pk[Len(pk) + 1 - i],
                    val |-> Placeholder(pk[Len(pk) + 1 - i])]],
     limit |-> None]
PredicateStatement(table_name, pk) ==
    [kind |-> "select", table |-> table_name,
     where |-> [i \in 1..Len(pk) |-> [col |-> pk[i], val |-> Placeholder(pk[i])]],
     limit |-> None]
\* the driver substitutes the parameters: future.message.query
Bind(query, params) ==
    LET w == query.where
        Resolved(p) == IF p.val.type = "placeholder"
                       THEN [col |-> p.col, val |-> params[p.val.v]]
                       ELSE p
    IN  [query EXCEPT !.where = [i \in 1..Len(w) |-> Resolved(w[i])]]
\* a free-form statement, known by its text only
CustomStatement(text) ==
    [kind |-> "custom", table |-> <<text>>, where |-> <<>>, limit |-> None]
(***************************************************************************)
(* The server's answer to a statement                                      *)
(***************************************************************************)
\* what a free-form statement selects
CustomRows(text) ==
    IF text = "q1" THEN RowsT
    ELSE IF text = "q2" THEN RowsU
    ELSE <<>>

\* the rows a statement returns when it succeeds
Execute(query) ==
    LET all == TableRows(query.table)
        Matches(r) == \A i \in 1..Len(query.where) :
                          r[query.where[i].col] = query.where[i].val
    IN  CASE query.kind = "scan" ->
                SubSeq(all, 1, Min(query.limit[1], Len(all)))
          [] query.kind = "select" -> SelectSeq(all, Matches)
          [] OTHER -> CustomRows(query.table[1])

\* how an execution can end: with rows, or with an exception.  A
\* cassandra.ReadFailure is raised for too many tombstones and for any
\* other replica-side read error; the class is all the client sees.
ReadFailureTombstones == "ReadFailure: tombstone overwhelming"
ReadFailureOther == "ReadFailure: replica error"
OtherError == "OperationTimedOut"
SyntaxError == "SyntaxException"
Outcomes(query) ==
    IF query.kind = "scan" /\ query.limit = None
    THEN {SyntaxError}       \* "LIMIT NULL" is no CQL
    ELSE {"ok", ReadFailureTombstones, ReadFailureOther, OtherError}

\* except cassandra.ReadFailure
IsAnyError(outcome) == outcome # "ok"
IsNoError(outcome) == FALSE
IsReadFailure(outcome) == outcome \in {ReadFailureTombstones, ReadFailureOther}

(***************************************************************************)
(* The arguments of generate_fingerprint                                   *)
(***************************************************************************)
\* params = {k: row[k] for k in pk}
Params(pk, row) == [k \in {pk[i] : i \in 1..Len(pk)} |-> row[k]]
\* the resolved statement build_response_for_row records for a row
ResolvedPredicate(table, row) ==
    Bind(PredicateStatement(QualifiedName(table), table.primary_key),
         Params(table.primary_key, row))

\* entries an earlier run recorded: one that still matches the table, one
\* whose row has changed since, one of a table with a datetime column
RecordedT1 == [query |-> ResolvedPredicate(TableT, RowsT[1]),
               data |-> <<RowsT[1]>>]
RecordedT2 == [query |-> ResolvedPredicate(TableT, RowsT[2]),
               data |-> <<[id |-> IntVal("2"), name |-> TextVal("old")]>>]
RecordedU1 == [query |-> ResolvedPredicate(TableU, RowsU[1]),
               data |-> <<PyStr(RowsU[1])>>]
RecordedQ(text) == [query |-> CustomStatement(text), data |-> CustomRows(text)]

OldSchema == [schema |-> "CREATE TABLE recorded"]
WithData(list) == [schema |-> OldSchema.schema, data |-> list]

SeqsUpTo(S, lo, hi) == UNION {[1..n -> S] : n \in lo..hi}

\* a table's entry in the template: none, or Some(entry)
EntriesT == {None, Some(OldSchema), Some(WithData(<<>>))}
            \cup {Some(WithData(l)) : l \in SeqsUpTo({RecordedT1, RecordedT2}, 1, MaxReplay)}
EntriesU == {None, Some(OldSchema), Some(WithData(<<RecordedU1>>))}
TemplateCustomChoices ==
    {None, Some(<<>>),
     Some(<<RecordedQ("q3"), RecordedQ("q1"), RecordedQ("q3")>>)}

Entry(name, e) == IF e = None THEN EmptyMap ELSE name :> e[1]
\* a fingerprint document used as template; it also records a table and a
\* keyspace that the cluster no longer has
MakeTemplate(et, eu, cq) ==
    LET ks == (App :> (Entry("t", et) @@ Entry("u", eu)
                       @@ ("e" :> WithData(<<>>)) @@ ("dropped" :> OldSchema)))
              @@ (<<"gone">> :> ("x" :> WithData(<<RecordedT1>>)))
    IN  IF cq = None THEN [keyspaces |-> ks]
        ELSE [keyspaces |-> ks, custom_queries |-> cq[1]]

TemplateChoices ==
    {EmptyMap} \cup {MakeTemplate(et, eu, cq) :
                        et \in EntriesT, eu \in EntriesU, cq \in TemplateCustomChoices}
SampleSizeChoices == {None} \cup {Some(n) : n \in 1..MaxSample}
TransientChoices == {{}, {QualifiedName(TableT), <<"gone", ".", "x">>}}
CustomChoices == SeqsUpTo({CustomStatement("q1"), CustomStatement("q2")}, 0, MaxCustom)
(***************************************************************************)
(* State                                                                   *)
(***************************************************************************)
VARIABLES
    sample_size, template_report, transient_tables, custom_queries,
        \* the arguments of generate_fingerprint
    pc,             \* where the run is: "keyspace", "table", "replay", "rows",
                    \* "custom", "template_custom", "print", "done", "aborted"
    ki, ti,         \* the keyspace and the table the loops are at
    fingerprint,    \* the document of generate_fingerprint
    kp_fingerprint, \* the fingerprint of generate_fingerprint_for_kp
    rows,           \* the scan's rows in get_table_data_from_db
    data,           \* the list get_table_data_from_db / _from_template builds
    query_results,  \* the list execute_custom_queries builds
    log,            \* every statement sent to the session, with its outcome
    exc,            \* the exception that ended the run, if any
    stdout          \* what was printed

args == <<sample_size, template_report, transient_tables, custom_queries>>
vars == <<sample_size, template_report, transient_tables, custom_queries, pc,
          ki, ti, fingerprint, kp_fingerprint, rows, data, query_results,
          log, exc, stdout>>

\* the arguments run() passes for the `fingerprint` and `template` commands
FreshMode == sample_size # None /\ template_report = EmptyMap
TemplateMode == sample_size = None /\ transient_tables = {} /\ custom_queries = <<>>

Init ==
    /\ sample_size \in SampleSizeChoices
    /\ template_report \in TemplateChoices
    /\ transient_tables \in TransientChoices
    /\ custom_queries \in CustomChoices
    /\ pc = "keyspace"
    /\ ki = 1
    /\ ti = 1
    /\ fingerprint = [keyspaces |-> EmptyMap]
    /\ kp_fingerprint = EmptyMap
    /\ rows = <<>>
    /\ data = <<>>
    /\ query_results = <<>>
    /\ log = <<>>
    /\ exc = None
    /\ stdout = <<>>

(***************************************************************************)
(* generate_fingerprint: the keyspace and table loops                      *)
(***************************************************************************)
IsAnyKeyspace(k) == TRUE
IsUserKeyspace(k) == ~startswith(k.name, SystemPrefix)
\* (k for k in cluster.metadata.keyspaces.values()
\*    if not k.name.startswith('system'))
user_keyspaces == SelectSeq(ClusterKeyspaces, IsUserKeyspace)

template_keyspaces == Get(template_report, "keyspaces", EmptyMap)
space == user_keyspaces[ki]
ksp_template == Get(template_keyspaces, space.name, EmptyMap)
table == space.tables[ti]
\* ksp_template.get(table.name): the entry, or None
HasTableTemplate == table.name \in DOMAIN ksp_template
table_template == ksp_template[table.name]

\* the branch get_table_fingerprint takes
FingerprintBranch ==
    IF HasTableTemplate /\ DOMAIN table_template # {} THEN "template"
    ELSE IF QualifiedName(table) \in transient_tables THEN "transient"
    ELSE "db"

\* the branch get_table_data_from_template takes
TemplateBranch ==
    IF "data" \notin DOMAIN table_template THEN "none"
    ELSE IF table_template.data # <<>> THEN "replay"
    ELSE "db"

\* what is done for the table: nothing, a replay, or a scan with a limit
PlanFallbackSampleSize ==
    CASE FingerprintBranch = "transient" -> [do |-> "skip"]
      [] FingerprintBranch = "db" -> [do |-> "scan", limit |-> sample_size]
      [] FingerprintBranch = "template" /\ TemplateBranch = "none" -> [do |-> "skip"]
      [] FingerprintBranch = "template" /\ TemplateBranch = "replay" -> [do |-> "replay"]
      [] OTHER -> [do |-> "scan", limit |-> sample_size]
Plan ==
    CASE FingerprintBranch = "transient" -> [do |-> "skip"]
      [] FingerprintBranch = "db" -> [do |-> "scan", limit |-> sample_size]
      [] FingerprintBranch = "template" /\ TemplateBranch = "none" -> [do |-> "skip"]
      [] FingerprintBranch = "template" /\ TemplateBranch = "replay" -> [do |-> "replay"]
      [] OTHER -> [do |-> "scan", limit |-> Some(1)]

\* fingerprint["schema"] = ...; if data is not None: fingerprint["data"] = data
TableFingerprint(d) ==
    IF d = None THEN [schema |-> table.schema]
    ELSE [schema |-> table.schema, data |-> d[1]]

\* CUSTOM_QUERIES in template_report
HasTemplateCustom == "custom_queries" \in DOMAIN template_report
\* [q["query"] for q in template_report[CUSTOM_QUERIES]]
TemplateQueries ==
    [i \in 1..Len(template_report.custom_queries) |->
        template_report.custom_queries[i].query]

WithCustom(fp, results) ==
    [keyspaces |-> fp.keyspaces, custom_queries |-> results]

\* lines 147-150, reached with the document fp
EnterTemplateCustomKeepsFresh(fp) ==
    IF HasTemplateCustom /\ "custom_queries" \notin DOMAIN fp
    THEN IF TemplateQueries = <<>>
         THEN [pc |-> "print", fingerprint |-> WithCustom(fp, <<>>)]
         ELSE [pc |-> "template_custom", fingerprint |-> fp]
    ELSE [pc |-> "print", fingerprint |-> fp]
EnterTemplateCustom(fp) ==
    IF HasTemplateCustom
    THEN IF TemplateQueries = <<>>
         THEN [pc |-> "print", fingerprint |-> WithCustom(fp, <<>>)]
         ELSE [pc |-> "template_custom", fingerprint |-> fp]
    ELSE [pc |-> "print", fingerprint |-> fp]
\* lines 144-146
EnterCustom(fp) ==
    IF custom_queries # <<>>
    THEN [pc |-> "custom", fingerprint |-> fp]
    ELSE EnterTemplateCustom(fp)

Sent(query, outcome, by) == Append(log, [query |-> query, outcome |-> outcome, by |-> by])

\* an exception nobody catches: run() ends with a traceback
Abort(outcome) ==
    /\ pc' = "aborted"
    /\ exc' = Some(outcome)
    /\ UNCHANGED <<ki, ti, fingerprint, kp_fingerprint, rows, data,
                   query_results, stdout>>

\* get_table_fingerprint returns; the table loop and the keyspace loop go on
FinishTable(d) ==
    LET kp == kp_fingerprint @@ (table.name :> TableFingerprint(d))
    IN  /\ rows' = <<>>
        /\ data' = <<>>
        /\ IF ti < Len(space.tables)
           THEN /\ kp_fingerprint' = kp
                /\ ti' = ti + 1
                /\ pc' = "table"
                /\ UNCHANGED <<ki, fingerprint>>
           ELSE /\ fingerprint' =
                       [fingerprint EXCEPT !.keyspaces = @ @@ (space.name :> kp)]
                /\ kp_fingerprint' = EmptyMap
                /\ ki' = ki + 1
                /\ ti' = 1
                /\ pc' = "keyspace"
        /\ UNCHANGED <<query_results, exc, stdout>>

\* the keyspace loop takes the next user keyspace, or ends
Keyspace ==
    /\ pc = "keyspace"
    /\ IF ki <= Len(user_keyspaces)
       THEN IF space.tables = <<>>
            THEN /\ fingerprint' =
                        [fingerprint EXCEPT !.keyspaces = @ @@ (space.name :> EmptyMap)]
                 /\ ki' = ki + 1
                 /\ UNCHANGED <<pc, ti, kp_fingerprint>>
            ELSE /\ pc' = "table"
                 /\ ti' = 1
                 /\ kp_fingerprint' = EmptyMap
                 /\ UNCHANGED <<ki, fingerprint>>
       ELSE /\ pc' = EnterCustom(fingerprint).pc
            /\ fingerprint' = EnterCustom(fingerprint).fingerprint
            /\ UNCHANGED <<ki, ti, kp_fingerprint>>
    /\ UNCHANGED <<args, rows, data, query_results, log, exc, stdout>>

\* a table that gets no data: transient, or a template entry without `data`
SkipTable ==
    /\ pc = "table"
    /\ Plan.do = "skip"
    /\ FinishTable(None)
    /\ UNCHANGED <<args, log>>

\* get_table_data_from_db: the LIMIT scan
Scan ==
    /\ pc = "table"
    /\ Plan.do = "scan"
    /\ LET query == ScanStatement(QualifiedName(table), Plan.limit)
       IN  \E outcome \in Outcomes(query) :
             /\ log' = Sent(query, outcome, "get_table_data_from_db")
             /\ IF outcome = "ok"
                THEN IF Execute(query) = <<>>
                     THEN FinishTable(Some(<<>>))
                     ELSE /\ rows' = Execute(query)
                          /\ pc' = "rows"
                          /\ UNCHANGED <<ki, ti, fingerprint, kp_fingerprint,
                                         data, query_results, exc, stdout>>
                ELSE IF IsReadFailure(outcome)
                     THEN FinishTable(None)
                     ELSE Abort(outcome)
    /\ UNCHANGED args

\* build_response_for_row for the next row of the scan
Predicate ==
    /\ pc = "rows"
    /\ LET row == rows[Len(data) + 1]
           query == PredicateStatement(QualifiedName(table), table.primary_key)
           params == Params(table.primary_key, row)
           bounded_query == Bind(query, params)
       IN  \E outcome \in Outcomes(bounded_query) :
             /\ log' = Sent(bounded_query, outcome, "build_response_for_row")
             /\ IF outcome = "ok"
                THEN LET current == Append(data,
                             QueryResult(bounded_query, Execute(bounded_query)))
                     IN  IF Len(current) = Len(rows)
                         THEN FinishTable(Some(current))
                         ELSE /\ data' = current
                              /\ UNCHANGED <<pc, ki, ti, fingerprint, kp_fingerprint,
                                             rows, query_results, exc, stdout>>
                ELSE Abort(outcome)
    /\ UNCHANGED args

\* get_table_data_from_template: the next recorded query
Replay ==
    /\ pc \in {"table", "replay"}
    /\ Plan.do = "replay"
    /\ LET row_list == table_template.data
           query == NextQuery(row_list, data).query
       IN  \E outcome \in Outcomes(query) :
             /\ log' = Sent(query, outcome, "get_table_data_from_template")
             /\ IF outcome = "ok"
                THEN LET current == Append(data, QueryResult(query, Execute(query)))
                     IN  IF Len(current) = Len(row_list)
                         THEN FinishTable(Some(current))
                         ELSE /\ data' = current
                              /\ pc' = "replay"
                              /\ UNCHANGED <<ki, ti, fingerprint, kp_fingerprint,
                                             rows, query_results, exc, stdout>>
                ELSE Abort(outcome)
    /\ UNCHANGED args

(***************************************************************************)
(* execute_custom_queries, and the end of the run                          *)
(***************************************************************************)
\* the next of the caller's queries
Custom ==
    /\ pc = "custom"
    /\ LET query == NextQuery(custom_queries, query_results)
       IN  \E outcome \in Outcomes(query) :
             /\ log' = Sent(query, outcome, "execute_custom_queries")
             /\ IF outcome = "ok"
                THEN LET current == Append(query_results,
                                            QueryResult(query, Execute(query)))
                     IN  IF Len(current) = Len(custom_queries)
                         THEN /\ query_results' = <<>>
                              /\ pc' = EnterTemplateCustom(
                                           WithCustom(fingerprint, current)).pc
                              /\ fingerprint' = EnterTemplateCustom(
                                           WithCustom(fingerprint, current)).fingerprint
                              /\ UNCHANGED <<ki, ti, kp_fingerprint, rows, data,
                                             exc, stdout>>
                         ELSE /\ query_results' = current
                              /\ UNCHANGED <<pc, ki, ti, fingerprint, kp_fingerprint,
                                             rows, data, exc, stdout>>
                ELSE Abort(outcome)
    /\ UNCHANGED args

\* the next of the template's recorded custom queries
TemplateCustom ==
    /\ pc = "template_custom"
    /\ LET queries == TemplateQueries
           query == NextQuery(queries, query_results)
       IN  \E outcome \in Outcomes(query) :
             /\ log' = Sent(query, outcome, "execute_custom_queries")
             /\ IF outcome = "ok"
                THEN LET current == Append(query_results,
                                            QueryResult(query, Execute(query)))
                     IN  IF Len(current) = Len(queries)
                         THEN /\ query_results' = <<>>
                              /\ pc' = "print"
                              /\ fingerprint' = WithCustom(fingerprint, current)
                              /\ UNCHANGED <<ki, ti, kp_fingerprint, rows, data,
                                             exc, stdout>>
                         ELSE /\ query_results' = current
                              /\ UNCHANGED <<pc, ki, ti, fingerprint, kp_fingerprint,
                                             rows, data, exc, stdout>>
                ELSE Abort(outcome)
    /\ UNCHANGED args

\* print(json.dumps(fingerprint))
PrintDocument ==
    /\ pc = "print"
    /\ stdout' = <<fingerprint>>
    /\ pc' = "done"
    /\ UNCHANGED <<args, ki, ti, fingerprint, kp_fingerprint, rows, data,
                   query_results, log, exc>>

Next ==
    \/ Keyspace
    \/ SkipTable
    \/ Scan
    \/ Predicate
    \/ Replay
    \/ Custom
    \/ TemplateCustom
    \/ PrintDocument

\* generate_fingerprint called with any arguments
Spec == Init /\ [][Next]_vars

\* generate_fingerprint called by run()
InitRun == Init /\ (FreshMode \/ TemplateMode)
SpecRun == InitRun /\ [][Next]_vars
(***************************************************************************)
(* Properties                                                              *)
(***************************************************************************)
Range(seq) == {seq[i] : i \in DOMAIN seq}

\* the cluster's keyspaces whose name does not begin with "system", and
\* their tables
ExpectedKeyspaces == {k \in Range(ClusterKeyspaces) : Head(k.name) # "system"}
ExpectedTables == UNION {Range(k.tables) : k \in ExpectedKeyspaces}

\* the template's entry for a table
InTemplate(tb) ==
    /\ "keyspaces" \in DOMAIN template_report
    /\ tb.keyspace_name \in DOMAIN template_report.keyspaces
    /\ tb.name \in DOMAIN template_report.keyspaces[tb.keyspace_name]
TemplateOf(tb) == template_report.keyspaces[tb.keyspace_name][tb.name]
RecordedList(tb) == InTemplate(tb) /\ "data" \in DOMAIN TemplateOf(tb)
RecordedNonEmpty(tb) == RecordedList(tb) /\ TemplateOf(tb).data # <<>>
RecordedEmpty(tb) == RecordedList(tb) /\ TemplateOf(tb).data = <<>>
RecordedNothing(tb) == InTemplate(tb) /\ "data" \notin DOMAIN TemplateOf(tb)
IsTransient(tb) == QualifiedName(tb) \in transient_tables

\* the printed document and a table's fingerprint in it
Completed == pc = "done"
Document == stdout[1]
Out(tb) == Document.keyspaces[tb.keyspace_name][tb.name]
HasData(tb) == "data" \in DOMAIN Out(tb)

\* the statements sent for a table by one function, in the order sent
SentFor(tb, by) ==
    LET Is(e) == e.by = by /\ e.query.table = QualifiedName(tb)
    IN  SelectSeq(log, Is)
SentBy(by) ==
    LET Is(e) == e.by = by
    IN  SelectSeq(log, Is)
AnySentFor(tb) == \E i \in DOMAIN log : log[i].query.table = QualifiedName(tb)
Queries(list) == [i \in DOMAIN list |-> list[i].query]

\* C1: a table of the transient set gets no `data` key and no query is sent
\* for it, whatever the template holds for it and whatever the sample size.
C1_TransientFirst ==
    \A tb \in ExpectedTables :
        IsTransient(tb) =>
            /\ ~AnySentFor(tb)
            /\ Completed => ~HasData(tb)

\* C2: replaying a non-empty recorded list sends each recorded query once,
\* in the recorded order, and yields one entry per recorded query with that
\* query; an entry whose rows are as they were when recorded gets the
\* recorded data again.
StillCurrent == {RecordedT1, RecordedU1}
C2_ReplayFidelity ==
    \A tb \in ExpectedTables :
        RecordedNonEmpty(tb) =>
            LET recorded == TemplateOf(tb).data
                sent == SentFor(tb, "get_table_data_from_template")
            IN  /\ Len(sent) <= Len(recorded)
                /\ \A i \in DOMAIN sent : sent[i].query = recorded[i].query
                /\ Completed =>
                      /\ Len(sent) = Len(recorded)
                      /\ HasData(tb)
                      /\ Queries(Out(tb).data) = Queries(recorded)
                      /\ \A i \in DOMAIN recorded :
                            recorded[i] \in StillCurrent =>
                                Out(tb).data[i].data = recorded[i].data
C2_Witness ==
    /\ Completed
    /\ RecordedNonEmpty(TableT) /\ Len(TemplateOf(TableT).data) = 2
    /\ TemplateOf(TableT).data[1] # TemplateOf(TableT).data[2]
    /\ RecordedNonEmpty(TableU)
    /\ Out(TableU).data = <<RecordedU1>>

\* C3: a template entry with `data: []` has the table scanned with LIMIT 1,
\* so that it gets at most one entry, and one when it has a row and the scan
\* succeeds; an entry without `data` gets no `data` and no query.
C3_EmptyTemplateBootstrap ==
    \A tb \in ExpectedTables :
        /\ RecordedEmpty(tb) =>
              LET scans == SentFor(tb, "get_table_data_from_db")
              IN  /\ \A i \in DOMAIN scans : scans[i].query.limit = Some(1)
                  /\ Len(scans) <= 1
                  /\ SentFor(tb, "get_table_data_from_template") = <<>>
                  /\ Completed =>
                        /\ Len(scans) = 1
                        /\ scans[1].outcome = "ok" =>
                              /\ HasData(tb)
                              /\ Len(Out(tb).data) = Min(1, Len(TableRows(QualifiedName(tb))))
                        /\ scans[1].outcome # "ok" => ~HasData(tb)
        /\ RecordedNothing(tb) =>
              /\ ~AnySentFor(tb)
              /\ Completed => ~HasData(tb)
C3_Witness ==
    /\ Completed
    /\ RecordedEmpty(TableT) /\ RecordedNothing(TableU)
    /\ sample_size = Some(2)
    /\ HasData(TableT) /\ Len(Out(TableT).data) = 1
    /\ HasData(TableE) /\ Out(TableE).data = <<>>
\* C4: with both a non-empty list of fresh custom queries and a template
\* that carries `custom_queries`, the document's `custom_queries` are the
\* template's recorded queries re-executed, in the recorded order, also when
\* the recorded list is empty.
C4_TemplateCustomPrecedence ==
    (Completed /\ custom_queries # <<>> /\ "custom_queries" \in DOMAIN template_report) =>
        LET recorded == template_report.custom_queries
        IN  /\ "custom_queries" \in DOMAIN Document
            /\ Len(Document.custom_queries) = Len(recorded)
            /\ \A i \in DOMAIN recorded :
                  /\ Document.custom_queries[i].query = recorded[i].query
                  /\ Document.custom_queries[i].data = CustomRows(recorded[i].query.table[1])
C4_Witness ==
    /\ Completed
    /\ Len(custom_queries) = 2
    /\ "custom_queries" \in DOMAIN template_report
    /\ Len(Document.custom_queries) = 3
    /\ \A i \in DOMAIN custom_queries :
          \A j \in DOMAIN Document.custom_queries :
              Document.custom_queries[j].query # custom_queries[i]
C4_WitnessEmpty ==
    /\ Completed
    /\ custom_queries # <<>>
    /\ "custom_queries" \in DOMAIN template_report
    /\ Document.custom_queries = <<>>

\* C5: a document with `custom_queries` has one entry per input query (the
\* caller's in fresh mode, the recorded ones in template mode), the i-th
\* entry for the i-th query, duplicates kept; custom queries are sent one at
\* a time in input order, after every keyspace and table has been processed.
RecordedCustom ==
    IF "custom_queries" \in DOMAIN template_report
    THEN Queries(template_report.custom_queries)
    ELSE <<>>
C5_CustomOrder ==
    LET sent == SentBy("execute_custom_queries")
        all == custom_queries \o RecordedCustom
    IN  /\ Len(sent) <= Len(all)
        /\ \A i \in DOMAIN sent : sent[i].query = all[i]
        /\ \A i \in DOMAIN log :
              log[i].by = "execute_custom_queries" =>
                  /\ ki > Len(user_keyspaces)
                  /\ \A j \in i..Len(log) : log[j].by = "execute_custom_queries"
        /\ (Completed /\ "custom_queries" \in DOMAIN Document) =>
              /\ Len(sent) = Len(all)
              /\ FreshMode => Queries(Document.custom_queries) = custom_queries
              /\ TemplateMode => Queries(Document.custom_queries) = RecordedCustom
        /\ (Completed /\ FreshMode /\ custom_queries # <<>>) =>
              "custom_queries" \in DOMAIN Document
C5_WitnessFresh ==
    /\ Completed /\ FreshMode
    /\ Len(custom_queries) = 2 /\ custom_queries[1] = custom_queries[2]
    /\ Len(Document.custom_queries) = 2
    /\ \E i \in DOMAIN log : log[i].by = "build_response_for_row"
C5_WitnessTemplate ==
    /\ Completed /\ TemplateMode
    /\ "custom_queries" \in DOMAIN Document
    /\ Len(Document.custom_queries) = 3
    /\ \E i \in DOMAIN log : log[i].by = "get_table_data_from_template"
\* the statement expected for a sampled row: equality on the primary-key
\* columns in declared order, the row's values in place
ExpectedPredicate(tb, row) ==
    [kind |-> "select", table |-> QualifiedName(tb),
     where |-> [j \in 1..Len(tb.primary_key) |->
                   [col |-> tb.primary_key[j], val |-> row[tb.primary_key[j]]]],
     limit |-> None]
\* the rows a LIMIT n scan of the table returns
Scanned(tb, n) ==
    LET all == TableRows(QualifiedName(tb))
    IN  SubSeq(all, 1, Min(n, Len(all)))
\* `list` is the sample of the table for the scanned rows r
IsSampleOf(list, tb, r) ==
    /\ Len(list) = Len(r)
    /\ \A i \in DOMAIN r :
          /\ list[i].query = ExpectedPredicate(tb, r[i])
          /\ \A j \in DOMAIN list[i].query.where :
                list[i].query.where[j].val.type # "placeholder"
          /\ list[i].data = EscapeAll(Execute(list[i].query))
          /\ Len(list[i].data) = 1

\* C6: a scan that fails with the tombstone read failure does not abort the
\* run; the table gets `schema` and no `data`, every other table is
\* fingerprinted as without the failure, the custom queries run and a
\* complete document is printed.
TombstoneScan(tb) ==
    LET scans == SentFor(tb, "get_table_data_from_db")
    IN  scans # <<>> /\ scans[1].outcome = ReadFailureTombstones
C6_TombstoneRecovery ==
    /\ (log # <<>> /\ log[Len(log)].by = "get_table_data_from_db"
                   /\ log[Len(log)].outcome = ReadFailureTombstones)
          => (pc # "aborted" /\ exc = None)
    /\ \A tb \in ExpectedTables :
          (TombstoneScan(tb) /\ Completed) =>
              /\ Out(tb) = [schema |-> tb.schema]
              /\ \A other \in ExpectedTables \ {tb} :
                    LET scans == SentFor(other, "get_table_data_from_db")
                    IN  /\ Out(other).schema = other.schema
                        /\ (scans # <<>> /\ scans[1].outcome = "ok") =>
                              /\ HasData(other)
                              /\ IsSampleOf(Out(other).data, other,
                                            Scanned(other, scans[1].query.limit[1]))
              /\ Len(SentBy("execute_custom_queries"))
                    = Len(custom_queries) + Len(RecordedCustom)
              /\ custom_queries # <<>> => "custom_queries" \in DOMAIN Document
C6_Witness ==
    /\ Completed
    /\ TombstoneScan(TableT)
    /\ HasData(TableU) /\ Len(Out(TableU).data) = 2
    /\ "custom_queries" \in DOMAIN Document
    /\ Len(Document.custom_queries) = 2

\* C7 as stated: every failed statement other than a scan failed by
\* tombstones is the last statement sent, ends the run and leaves nothing
\* printed.
TombstoneScanFailure(e) ==
    e.by = "get_table_data_from_db" /\ e.outcome = ReadFailureTombstones
ReadFailureOfScan(e) ==
    /\ e.by = "get_table_data_from_db"
    /\ e.outcome \in {ReadFailureTombstones, ReadFailureOther}
escape_row_per_column(value) ==
    [c \in DOMAIN value |->
        IF RaisesTypeError(value[c]) THEN PyStr(value[c]) ELSE value[c]]
IsNormalized(qr) ==
    LET result == Execute(qr.query)
    IN  qr.data = [i \in DOMAIN result |-> escape_row_per_column(result[i])]
C8_PerColumnNormalization ==
    Completed =>
        /\ \A tb \in ExpectedTables :
              HasData(tb) => \A i \in DOMAIN Out(tb).data : IsNormalized(Out(tb).data[i])
        /\ "custom_queries" \in DOMAIN Document =>
              \A i \in DOMAIN Document.custom_queries :
                  IsNormalized(Document.custom_queries[i])

C9_WitnessFresh ==
    /\ Completed /\ FreshMode
    /\ DOMAIN Document.keyspaces[App] = {"t", "u", "e"}

\* C10: a fresh sample of size N of a table that is not transient yields one
\* entry per row of the LIMIT N scan, in scan order; the i-th entry's query
\* is the resolved primary-key predicate of the i-th row, columns in
\* declared primary-key order, its data what that predicate returns; the
\* predicate of a row has answered before the next is sent.
FreshSample(tb) == ~InTemplate(tb) /\ ~IsTransient(tb) /\ sample_size # None
C10_FreshSample ==
    \A tb \in ExpectedTables :
        FreshSample(tb) =>
            LET scans == SentFor(tb, "get_table_data_from_db")
                preds == SentFor(tb, "build_response_for_row")
                r == Scanned(tb, sample_size[1])
            IN  /\ Len(scans) <= 1
                /\ \A i \in DOMAIN scans :
                      scans[i].query = ScanStatement(QualifiedName(tb), sample_size)
                /\ preds # <<>> => (scans # <<>> /\ scans[1].outcome = "ok")
                /\ Len(preds) <= Len(r)
                /\ \A i \in DOMAIN preds :
                      /\ preds[i].query = ExpectedPredicate(tb, r[i])
                      /\ i < Len(preds) => preds[i].outcome = "ok"
                /\ (Completed /\ scans # <<>> /\ scans[1].outcome = "ok") =>
                      /\ HasData(tb)
                      /\ Len(Out(tb).data) <= sample_size[1]
                      /\ IsSampleOf(Out(tb).data, tb, r)
C10_Witness ==
    /\ Completed
    /\ FreshSample(TableU) /\ sample_size = Some(2)
    /\ HasData(TableU) /\ Len(Out(TableU).data) = 2
    /\ FreshSample(TableT)
    /\ HasData(TableT) /\ Len(Out(TableT).data) = 2
    /\ FreshSample(TableE)
    /\ HasData(TableE) /\ Out(TableE).data = <<>>
====
